---- MODULE Spec2Model ----
(***************************************************************************)
(* One user session of the chat application: the chat turn pipeline       *)
(* (add_message, bot_response driving chat_fn, re-enabling the input) and  *)
(* the Document Store handlers (handle_file_upload, clear_documents).      *)
(*                                                                         *)
(* Texts typed by the user or produced by the LLM are sequences of tokens. *)
(* The text of an uploaded file is written [kind |-> "slice", text |-> p,  *)
(* len |-> n]: the first n characters of the file at path p.               *)
(***************************************************************************)
EXTENDS Integers, Sequences, FiniteSets, TLC

\* ------------------------------------------------------------- bounds
\* chunks the LLM delivers, and turns submitted, in a chat-only session
MaxChunks == 3
MaxTurns == 2
\* the same in a session that also uses the Document Manager
MaxDocChunks == 1
MaxDocTurns == 1

\* chat_config.py:32-33, the per-document limit of the prompt
TruncLimit == 5000

\* ------------------------------------------------------------- texts
EmptyStr == <<>>

Lit(s) == [kind |-> "lit", text |-> s, len |-> 1]

StrLen(c) == c.len

\* Python's c[:n] on the text of a file
Slice(c, n) == [kind |-> "slice", text |-> c.text, len |-> IF c.len < n THEN c.len ELSE n]

\* a prefix test that fails on equal texts
StartsWith_Proper(s, p) == Len(p) < Len(s) /\ SubSeq(s, 1, Len(p)) = p

StartsWith(s, p) == Len(p) <= Len(s) /\ SubSeq(s, 1, Len(p)) = p

RECURSIVE LStrip(_)
LStrip(s) == IF s /= <<>> /\ Head(s) = " " THEN LStrip(Tail(s)) ELSE s

RECURSIVE RStrip(_)
RStrip(s) == IF s /= <<>> /\ s[Len(s)] = " " THEN RStrip(SubSeq(s, 1, Len(s) - 1)) ELSE s

Strip(s) == RStrip(LStrip(s))

\* ------------------------------------------------------------- files
Paths == {"u/cv.txt", "v/cv.txt", "u/exact.txt", "u/bad.txt"}

Basename(p) ==
    CASE p = "u/cv.txt" -> "cv.txt"
      [] p = "v/cv.txt" -> "cv.txt"
      [] p = "u/exact.txt" -> "exact.txt"
      [] p = "u/bad.txt" -> "bad.txt"

\* open(file_path, 'r') raises for this one
Readable(p) == p /= "u/bad.txt"

FileLength(p) ==
    CASE p = "u/cv.txt" -> 5001
      [] p = "v/cv.txt" -> 12
      [] p = "u/exact.txt" -> 5000
      [] p = "u/bad.txt" -> 0

ReadFile(p) == [kind |-> "slice", text |-> p, len |-> FileLength(p)]

\* round(os.path.getsize(p) / 1024, 2), in hundredths of a KB, ties to even
SizeKb(p) ==
    LET n == FileLength(p) * 100
        q == n \div 1024
        r == n % 1024
    IN  IF r * 2 > 1024 \/ (r * 2 = 1024 /\ q % 2 = 1) THEN q + 1 ELSE q

\* datetime.now(), as seen by one handler
Clock == {0, 1}

\* strftime("%Y-%m-%d %H:%M"): the minute of a timestamp
Minute(now) == now \div 2

\* the file lists gr.File may hand over
Batches ==
    {<<>>} \cup {<<p>> : p \in Paths}
    \cup { <<"u/cv.txt", "v/cv.txt">>, <<"u/cv.txt", "u/exact.txt">>,
           <<"u/bad.txt", "u/exact.txt">>, <<"v/cv.txt", "u/bad.txt">> }

\* ------------------------------------------------------------- Document Store
\* The store is a Python dict: a sequence of entries in insertion order.
DictSet(store, key, doc) ==
    IF \E i \in 1..Len(store) : store[i].doc_id = key
    THEN [i \in 1..Len(store) |-> IF store[i].doc_id = key THEN doc ELSE store[i]]
    ELSE Append(store, doc)

\* an upload that never finds a duplicate
already_exists_Never(store, filename) == FALSE

already_exists(store, filename) == \E i \in 1..Len(store) : store[i].filename = filename

NewDocId(store, now) == <<Len(store) + 1, now>>

\* an upload that stores an empty document for a file it cannot read
InsertFile_StoresUnreadable(store, p, now) ==
    IF already_exists(store, Basename(p)) THEN store
    ELSE DictSet(store, NewDocId(store, now),
                 [doc_id |-> NewDocId(store, now),
                  filename |-> Basename(p),
                  content |-> ReadFile(p),
                  size_kb |-> SizeKb(p),
                  upload_date |-> Minute(now),
                  status |-> "Active"])

\* one iteration of the loop of handle_file_upload
InsertFile(store, p, now) ==
    IF already_exists(store, Basename(p)) THEN store
    ELSE IF ~Readable(p) THEN store
    ELSE DictSet(store, NewDocId(store, now),
                 [doc_id |-> NewDocId(store, now),
                  filename |-> Basename(p),
                  content |-> ReadFile(p),
                  size_kb |-> SizeKb(p),
                  upload_date |-> Minute(now),
                  status |-> "Active"])

RECURSIVE UploadAll(_, _, _)
UploadAll(store, files, now) ==
    IF files = <<>> THEN store
    ELSE UploadAll(InsertFile(store, Head(files), now), Tail(files), now)

format_document_display(store) ==
    [i \in 1..Len(store) |->
        <<store[i].filename, store[i].size_kb, store[i].upload_date, store[i].status>>]

\* a clear that drops only the oldest document
ClearStore_DropsFirst(store) == IF store = <<>> THEN store ELSE Tail(store)

ClearStore(store) == <<>>

\* ------------------------------------------------------------- Prompt Builder
DocsHeader == <<Lit("\n\n**Available Documents:**\n")>>

TruncationMarker == Lit("\n...(truncated)")

\* a prompt builder that marks a document of exactly TruncLimit characters
DocBlock_MarksAtLimit(doc) ==
    <<Lit("\n---\n**Document: "), Lit(doc.filename), Lit("**\n")>>
    \o <<Slice(doc.content, TruncLimit)>>
    \o (IF StrLen(doc.content) >= TruncLimit THEN <<TruncationMarker>> ELSE <<>>)
    \o <<Lit("\n---\n")>>

DocBlock(doc) ==
    <<Lit("\n---\n**Document: "), Lit(doc.filename), Lit("**\n")>>
    \o <<Slice(doc.content, TruncLimit)>>
    \o (IF StrLen(doc.content) > TruncLimit THEN <<TruncationMarker>> ELSE <<>>)
    \o <<Lit("\n---\n")>>

SystemPrompt(document_context) ==
    <<Lit("**Role**: HR Document Analyst ..."), Lit("<date>"), Lit("<time>")>>
    \o document_context

\* ------------------------------------------------------------- messages
NoTitle == "none"

ChatMessage(role, content) == [role |-> role, content |-> content, title |-> NoTitle, cm |-> TRUE]

\* _extract_message_content, one message
ExtractOne(msg) ==
    IF msg.cm THEN [role |-> msg.role, content |-> msg.content, title |-> NoTitle, cm |-> FALSE]
    ELSE msg

_extract_message_content(history) == [i \in 1..Len(history) |-> ExtractOne(history[i])]

\* a filter that lets every role through
KeepForLLM_AnyRole(msg) ==
    /\ msg.role /= ""
    /\ msg.content /= EmptyStr
    /\ \/ msg.role /= "assistant"
       \/ msg.title = NoTitle

\* the filter of chat_fn's loop over the history
KeepForLLM(msg) ==
    /\ msg.role /= ""
    /\ msg.content /= EmptyStr
    /\ \/ msg.role = "assistant" /\ msg.title = NoTitle
       \/ msg.role = "user"

RECURSIVE HistoryMessages(_)
HistoryMessages(h) ==
    IF h = <<>> THEN <<>>
    ELSE (IF KeepForLLM(Head(h))
          THEN <<[role |-> Head(h).role, content |-> Head(h).content]>>
          ELSE <<>>) \o HistoryMessages(Tail(h))

BuildMessages(document_context, history_for_llm) ==
    <<[role |-> "system", content |-> SystemPrompt(document_context)]>>
    \o HistoryMessages(history_for_llm)

\* ------------------------------------------------------------- Stream Splitter
ErrorMessage == <<"Error communicating with Ollama: <e>">>

\* the chunks the LLM client may deliver
Chunks ==
    { [thinking |-> t, content |-> c, has_pec |-> FALSE, has_ec |-> FALSE] :
          t \in {EmptyStr, <<"A">>, <<"A", "B">>}, c \in {EmptyStr, <<"X">>} }
    \cup { [thinking |-> EmptyStr, content |-> EmptyStr, has_pec |-> TRUE, has_ec |-> TRUE],
           [thinking |-> EmptyStr, content |-> EmptyStr, has_pec |-> TRUE, has_ec |-> FALSE] }

\* the values of chunk["prompt_eval_count"] and chunk["eval_count"] when present
ChunkPromptEvalCount(chunk) == 7

ChunkEvalCount(chunk) == 5

should_yield(chunk) ==
    chunk.has_pec \/ chunk.has_ec \/ chunk.thinking /= EmptyStr \/ chunk.content /= EmptyStr

\* a splitter that keeps only the latest thinking fragment
AccumulateThinking_Overwrite(buffer, fragment) == fragment

AccumulateThinking(buffer, fragment) == buffer \o fragment

AccumulateResponse(buffer, fragment) == buffer \o fragment

\* a splitter that ends the thinking phase at any response fragment
NextThinkingComplete_AnyResponse(complete, thinking_buf, chunk) ==
    IF chunk.content /= EmptyStr /\ ~complete THEN TRUE ELSE complete

NextThinkingComplete(complete, thinking_buf, chunk) ==
    IF chunk.content /= EmptyStr /\ thinking_buf /= EmptyStr /\ ~complete THEN TRUE ELSE complete

\* an except clause that leaves thinking_complete unset
ErrorState_NotComplete ==
    [thinking |-> EmptyStr, response |-> ErrorMessage, thinking_complete |-> FALSE,
     has_counts |-> FALSE, prompt_eval_count |-> 0, eval_count |-> 0]

ErrorState ==
    [thinking |-> EmptyStr, response |-> ErrorMessage, thinking_complete |-> TRUE,
     has_counts |-> FALSE, prompt_eval_count |-> 0, eval_count |-> 0]

NoState ==
    [thinking |-> EmptyStr, response |-> EmptyStr, thinking_complete |-> FALSE,
     has_counts |-> FALSE, prompt_eval_count |-> 0, eval_count |-> 0]

\* ------------------------------------------------------------- Transcript Assembler
_create_status_message(status_text) ==
    <<[role |-> "assistant", content |-> <<"*", status_text, "*">>]>>

FormatThinking(thinking_complete, thinking) ==
    <<"**", (IF thinking_complete THEN "done" ELSE "in progress"), " Thinking**\n\n">> \o thinking

_update_thinking_messages(thinking_messages, thinking, thinking_complete, current_thinking_content) ==
    IF thinking = EmptyStr
    THEN IF thinking_messages = <<>>
         THEN _create_status_message("Waiting for response...")
         ELSE thinking_messages
    ELSE LET entry == [role |-> "assistant", content |-> FormatThinking(thinking_complete, thinking)]
         IN  IF thinking_messages /= <<>> /\ StartsWith(thinking, current_thinking_content)
             THEN [thinking_messages EXCEPT ![Len(thinking_messages)] = entry]
             ELSE Append(thinking_messages, entry)

\* an assembler that writes the first response text over the last message
_update_chat_response_OverwriteLast(h, response, added) ==
    IF response = EmptyStr THEN h
    ELSE IF h = <<>> THEN Append(h, ChatMessage("assistant", response))
    ELSE [h EXCEPT ![Len(h)] = ChatMessage("assistant", response)]

\* an assembler that appends every response text
_update_chat_response_Append(h, response, added) ==
    IF response = EmptyStr THEN h ELSE Append(h, ChatMessage("assistant", response))

_update_chat_response(h, response, added) ==
    IF response = EmptyStr THEN h
    ELSE IF ~added THEN Append(h, ChatMessage("assistant", response))
    ELSE [h EXCEPT ![Len(h)] = ChatMessage("assistant", response)]

FinalThinkingMessages(thinking_messages) ==
    IF thinking_messages = <<>>
    THEN _create_status_message("No thinking data available")
    ELSE thinking_messages

\* ------------------------------------------------------------- user input
Inputs ==
    { [is_dict |-> TRUE, text |-> <<"q">>],
      [is_dict |-> TRUE, text |-> <<" ">>],
      [is_dict |-> FALSE, text |-> EmptyStr] }

UserContent(message) == message.text

\* an add_message that leaves the textbox enabled
AddMessageInteractive_Enabled == TRUE

\* the textbox add_message returns: MultimodalTextbox(value=None, interactive=False)
AddMessageInteractive == FALSE

\* the transcripts a client may hold when the turn starts
RichHistory ==
    << [role |-> "system", content |-> <<"s">>, title |-> NoTitle, cm |-> FALSE],
       [role |-> "user", content |-> <<"q0">>, title |-> NoTitle, cm |-> FALSE],
       [role |-> "assistant", content |-> EmptyStr, title |-> NoTitle, cm |-> FALSE],
       [role |-> "assistant", content |-> <<"t">>, title |-> "Thinking", cm |-> FALSE],
       [role |-> "assistant", content |-> ErrorMessage, title |-> NoTitle, cm |-> TRUE] >>

InitHistories == {<<>>, RichHistory}

\* ------------------------------------------------------------- state
VARIABLES
    history,                  \* the chatbot component: the transcript
    interactive,              \* chat_msg_input.interactive
    thoughts,                 \* the thoughts component: the thinking transcript last yielded
    token_usage_state,        \* token_usage_state, last yielded token counts
    document_store,           \* document_store_state
    documents_display,        \* documents_display
    pc,                       \* position of the submit -> bot_response -> re-enable chain
    inflight,                 \* submitted turns whose chain has not finished
    turns_left,               \* turns the user may still submit
    chunks_left,              \* chunks the LLM may still deliver
    history_for_llm,          \* bot_response: history_for_llm
    response_msg_added,       \* bot_response: response_msg_added
    thinking_messages,        \* bot_response: thinking_messages
    current_thinking_content, \* bot_response: current_thinking_content
    token_counts,             \* bot_response: token_counts
    document_context,         \* chat_fn: document_context
    di_used,                  \* chat_fn: size of the dict when document_store.items() was taken
    di_pos,                   \* chat_fn: position of the iterator over document_store.items()
    messages,                 \* chat_fn: messages, until client.chat has taken them
    thinking_buffer,          \* chat_fn: thinking_buffer
    response_buffer,          \* chat_fn: response_buffer
    thinking_complete,        \* chat_fn: thinking_complete
    prompt_eval_count,        \* chat_fn: prompt_eval_count
    eval_count,               \* chat_fn: eval_count
    calls,                    \* client.chat calls of this turn
    seen,                     \* the chunks the response iterator has delivered in this turn
    last_state,               \* the state chat_fn yielded last
    errored,                  \* chat_fn's except clause has run in this turn
    start_len                 \* length of the transcript when bot_response started

ui_vars == <<history, interactive, thoughts, token_usage_state>>

doc_vars == <<document_store, documents_display>>

bot_vars == <<history_for_llm, response_msg_added, thinking_messages,
              current_thinking_content, token_counts, start_len>>

prompt_vars == <<document_context, di_used, di_pos, messages, calls>>

stream_vars == <<thinking_buffer, response_buffer, thinking_complete,
                 prompt_eval_count, eval_count, seen, last_state, errored>>

vars == <<ui_vars, doc_vars, pc, inflight, turns_left, chunks_left, bot_vars, prompt_vars, stream_vars>>

ZeroCounts == [prompt |-> 0, response |-> 0]

\* the locals of bot_response and chat_fn before the generators have started
LocalsInit ==
    /\ history_for_llm = <<>>
    /\ response_msg_added = FALSE
    /\ thinking_messages = <<>>
    /\ current_thinking_content = EmptyStr
    /\ token_counts = ZeroCounts
    /\ start_len = 0
    /\ document_context = <<>>
    /\ di_used = 0
    /\ di_pos = 0
    /\ messages = <<>>
    /\ calls = 0
    /\ thinking_buffer = EmptyStr
    /\ response_buffer = EmptyStr
    /\ thinking_complete = FALSE
    /\ prompt_eval_count = 0
    /\ eval_count = 0
    /\ seen = <<>>
    /\ last_state = NoState
    /\ errored = FALSE

\* the locals are gone when the generators have finished
LocalsReset ==
    /\ history_for_llm' = <<>>
    /\ response_msg_added' = FALSE
    /\ thinking_messages' = <<>>
    /\ current_thinking_content' = EmptyStr
    /\ token_counts' = ZeroCounts
    /\ start_len' = 0
    /\ document_context' = <<>>
    /\ di_used' = 0
    /\ di_pos' = 0
    /\ messages' = <<>>
    /\ calls' = 0
    /\ thinking_buffer' = EmptyStr
    /\ response_buffer' = EmptyStr
    /\ thinking_complete' = FALSE
    /\ prompt_eval_count' = 0
    /\ eval_count' = 0
    /\ seen' = <<>>
    /\ last_state' = NoState
    /\ errored' = FALSE

\* the session when create_chat_interface has built the interface
InitSession ==
    /\ interactive = TRUE
    /\ thoughts = <<>>
    /\ token_usage_state = ZeroCounts
    /\ document_store = <<>>
    /\ documents_display = <<>>
    /\ pc = "idle"
    /\ inflight = 0
    /\ LocalsInit

Init ==
    /\ InitSession
    /\ history \in InitHistories
    /\ turns_left = MaxTurns
    /\ chunks_left = MaxChunks

InitDocs ==
    /\ InitSession
    /\ history = <<>>
    /\ turns_left = MaxDocTurns
    /\ chunks_left = MaxDocChunks

\* ------------------------------------------------------------- Document Store handlers
\* handle_file_upload(files, document_store), whole handler
UploadBatch(files, now) ==
    /\ document_store' = UploadAll(document_store, files, now)
    /\ documents_display' = format_document_display(document_store')
    /\ UNCHANGED <<ui_vars, pc, inflight, turns_left, chunks_left, bot_vars, prompt_vars, stream_vars>>

\* file_upload.change
handle_file_upload == \E files \in Batches, now \in Clock : UploadBatch(files, now)

clear_documents ==
    /\ document_store' = ClearStore(document_store)
    /\ documents_display' = format_document_display(document_store')
    /\ UNCHANGED <<ui_vars, pc, inflight, turns_left, chunks_left, bot_vars, prompt_vars, stream_vars>>

\* ------------------------------------------------------------- chat turn
\* chat_msg_input.submit: add_message, whole handler
add_message ==
    \E message \in Inputs :
        /\ interactive
        /\ turns_left > 0
        /\ history' = IF Strip(UserContent(message)) /= EmptyStr
                      THEN Append(history, ChatMessage("user", UserContent(message)))
                      ELSE history
        /\ interactive' = AddMessageInteractive
        /\ turns_left' = turns_left - 1
        /\ UNCHANGED chunks_left
        /\ inflight' = inflight + 1
        /\ pc' = IF pc = "idle" THEN "bot" ELSE pc
        /\ UNCHANGED <<thoughts, token_usage_state, doc_vars, bot_vars, prompt_vars, stream_vars>>

\* chat_fn from the end of the prompt loop to the call of client.chat
PrepareCall(context) ==
    /\ messages' = BuildMessages(context, history_for_llm')
    /\ pc' = "call"

\* bot_response up to its first next(response_generator), and chat_fn up to the
\* loop over document_store.items()
BotStart ==
    /\ pc = "bot"
    /\ history_for_llm' = _extract_message_content(history)
    /\ start_len' = Len(history)
    /\ UNCHANGED <<response_msg_added, thinking_messages, current_thinking_content, token_counts>>
    /\ IF Len(document_store) > 0
       THEN /\ document_context' = DocsHeader
            /\ di_used' = Len(document_store)
            /\ di_pos' = 1
            /\ pc' = "docs"
            /\ UNCHANGED <<messages, calls>>
       ELSE /\ document_context' = <<>>
            /\ PrepareCall(<<>>)
            /\ UNCHANGED <<di_used, di_pos, calls>>
    /\ UNCHANGED <<ui_vars, doc_vars, inflight, turns_left, chunks_left, stream_vars>>

\* one next() of the iterator over document_store.items(), with the loop body
DocIterNext ==
    /\ pc = "docs"
    /\ IF Len(document_store) /= di_used
       THEN \* RuntimeError: dictionary changed size during iteration (outside the try)
            /\ pc' = "crashed"
            /\ UNCHANGED <<prompt_vars, history_for_llm>>
       ELSE IF di_pos > Len(document_store)
       THEN /\ history_for_llm' = history_for_llm
            /\ PrepareCall(document_context)
            /\ UNCHANGED <<document_context, di_used, di_pos, calls>>
       ELSE /\ document_context' = document_context \o DocBlock(document_store[di_pos])
            /\ di_pos' = di_pos + 1
            /\ UNCHANGED <<pc, di_used, messages, calls, history_for_llm>>
    /\ UNCHANGED <<ui_vars, doc_vars, inflight, turns_left, chunks_left, stream_vars,
                   response_msg_added, thinking_messages, current_thinking_content,
                   token_counts, start_len>>

\* client.chat(model=MODEL, messages=messages, stream=True, ...): the request leaves
ClientChat ==
    /\ pc = "call"
    /\ calls' = calls + 1
    /\ messages' = <<>>
    /\ document_context' = <<>>
    /\ di_used' = 0
    /\ di_pos' = 0
    /\ pc' = "stream"
    /\ UNCHANGED <<ui_vars, doc_vars, inflight, turns_left, chunks_left, bot_vars, stream_vars>>

\* the body of bot_response's loop for one state yielded by chat_fn, and its yield
BotStep(state) ==
    /\ token_counts' = IF state.has_counts
                       THEN [prompt |-> state.prompt_eval_count, response |-> state.eval_count]
                       ELSE token_counts
    /\ thinking_messages' = _update_thinking_messages(thinking_messages, state.thinking,
                                state.thinking_complete, current_thinking_content)
    /\ current_thinking_content' = IF state.thinking /= EmptyStr THEN state.thinking
                                   ELSE current_thinking_content
    /\ history' = _update_chat_response(history, state.response, response_msg_added)
    /\ response_msg_added' = IF state.response /= EmptyStr /\ ~response_msg_added THEN TRUE
                             ELSE response_msg_added
    /\ thoughts' = thinking_messages'
    /\ token_usage_state' = token_counts'
    /\ last_state' = state

\* the response iterator delivers a chunk: chat_fn's loop body
StreamChunk ==
    \E chunk \in Chunks :
        /\ pc = "stream"
        /\ ~errored
        /\ chunks_left > 0
        /\ chunks_left' = chunks_left - 1
        /\ seen' = Append(seen, chunk)
        /\ prompt_eval_count' = IF chunk.has_pec THEN ChunkPromptEvalCount(chunk) ELSE prompt_eval_count
        /\ eval_count' = IF chunk.has_ec THEN ChunkEvalCount(chunk) ELSE eval_count
        /\ thinking_buffer' = IF chunk.thinking /= EmptyStr
                              THEN AccumulateThinking(thinking_buffer, chunk.thinking)
                              ELSE thinking_buffer
        /\ response_buffer' = IF chunk.content /= EmptyStr
                              THEN AccumulateResponse(response_buffer, chunk.content)
                              ELSE response_buffer
        /\ thinking_complete' = NextThinkingComplete(thinking_complete, thinking_buffer', chunk)
        /\ IF should_yield(chunk)
           THEN BotStep([thinking |-> thinking_buffer', response |-> response_buffer',
                         thinking_complete |-> thinking_complete', has_counts |-> TRUE,
                         prompt_eval_count |-> prompt_eval_count', eval_count |-> eval_count'])
           ELSE UNCHANGED <<token_counts, thinking_messages, current_thinking_content, history,
                            response_msg_added, thoughts, token_usage_state, last_state>>
        /\ UNCHANGED <<interactive, doc_vars, pc, inflight, turns_left, history_for_llm, start_len,
                       prompt_vars, errored>>

\* client.chat or the response iterator raises: chat_fn's except clause
StreamError ==
    /\ pc = "stream"
    /\ ~errored
    /\ errored' = TRUE
    /\ BotStep(ErrorState)
    /\ UNCHANGED <<interactive, doc_vars, pc, inflight, turns_left, history_for_llm, start_len,
                   prompt_vars, thinking_buffer, response_buffer, thinking_complete,
                   prompt_eval_count, eval_count, chunks_left, seen>>

\* chat_fn is exhausted: bot_response's final yield
BotFinal ==
    /\ pc = "stream"
    /\ thinking_messages' = FinalThinkingMessages(thinking_messages)
    /\ thoughts' = thinking_messages'
    /\ token_usage_state' = token_counts
    /\ pc' = "done"
    /\ UNCHANGED <<history, interactive, doc_vars, inflight, turns_left, chunks_left, history_for_llm,
                   response_msg_added, current_thinking_content, token_counts, start_len,
                   prompt_vars, stream_vars>>

\* bot_msg.then(lambda: gr.MultimodalTextbox(interactive=True)); the generators are gone
Reenable ==
    /\ pc \in {"done", "crashed"}
    /\ interactive' = TRUE
    /\ inflight' = inflight - 1
    /\ pc' = IF inflight > 1 THEN "bot" ELSE "idle"
    /\ LocalsReset
    /\ UNCHANGED <<history, thoughts, token_usage_state, doc_vars, turns_left, chunks_left>>

\* a session in which the user only chats
Next ==
    \/ add_message
    \/ BotStart
    \/ ClientChat
    \/ StreamChunk
    \/ StreamError
    \/ BotFinal
    \/ Reenable

Spec == Init /\ [][Next]_vars

\* a session in which the user also uploads and clears documents, at any time
NextDocs ==
    \/ handle_file_upload
    \/ clear_documents
    \/ add_message
    \/ BotStart
    \/ DocIterNext
    \/ ClientChat
    \/ StreamChunk
    \/ StreamError
    \/ BotFinal
    \/ Reenable

SpecDocs == InitDocs /\ [][NextDocs]_vars

\* ============================================================= claims
Last(s) == s[Len(s)]

TextChunk(t, c) == [thinking |-> t, content |-> c, has_pec |-> FALSE, has_ec |-> FALSE]

\* ------------------------------------------------------------- C1
C1_Chunks == <<TextChunk(<<"A">>, EmptyStr), TextChunk(<<"A", "B">>, EmptyStr),
               TextChunk(EmptyStr, <<"X">>)>>

\* C1, as stated: after the chunks [{thinking:"A"}, {thinking:"AB"}, {response:"X"}]
\* the state chat_fn emitted last has thinking "AB", response "X" and
\* thinking_complete = true.
C1_Original ==
    (pc \in {"stream", "done"} /\ seen = C1_Chunks /\ ~errored) =>
        /\ last_state.thinking = <<"A", "B">>
        /\ last_state.response = <<"X">>
        /\ last_state.thinking_complete

\* C1, amended: after those chunks the state chat_fn emitted last has thinking "AAB"
\* (each fragment is appended to the accumulator), response "X" and
\* thinking_complete = true.
C1_Amended ==
    (pc \in {"stream", "done"} /\ seen = C1_Chunks /\ ~errored) =>
        /\ last_state.thinking = <<"A", "A", "B">>
        /\ last_state.response = <<"X">>
        /\ last_state.thinking_complete

C1_Witness == pc = "done" /\ seen = C1_Chunks /\ ~errored

\* ------------------------------------------------------------- C2
\* C2: when the stream of a turn has ended, carried at least one non-empty response
\* fragment and never a thinking fragment, the thinking transcript yielded last is
\* the single "No thinking data available" entry and the transcript ends with the
\* accumulated response.
C2_SentinelWhenNoThinking ==
    (pc = "done" /\ ~errored /\ thinking_buffer = EmptyStr /\ response_buffer /= EmptyStr) =>
        /\ thoughts = _create_status_message("No thinking data available")
        /\ Last(history).content = response_buffer

\* ------------------------------------------------------------- C3
C3_AfterError ==
    errored =>
        /\ pc \in {"stream", "done"}
        /\ last_state.response = ErrorMessage
        /\ last_state.thinking_complete
        /\ Len(history) = start_len + 1
        /\ Last(history) = ChatMessage("assistant", ErrorMessage)
        /\ calls = 1

C3_NothingAfterError ==
    (errored /\ errored') =>
        /\ seen' = seen
        /\ chunks_left' = chunks_left
        /\ last_state' = last_state
        /\ history' = history
        /\ calls' = calls

\* C3: once the LLM call has raised, chat_fn has emitted the error state (response =
\* the error string, thinking_complete = true) as its last state, the turn has added
\* exactly one message to the transcript and it carries the error string, client.chat
\* was called once, and until the turn is over no chunk is taken, no state is emitted
\* and the transcript does not change.
C3_ErrorIsTerminal == [](C3_AfterError) /\ [][C3_NothingAfterError]_vars

C3_Witness ==
    /\ pc = "done"
    /\ errored
    /\ Len(seen) >= 2
    /\ response_buffer /= EmptyStr
    /\ thinking_buffer /= EmptyStr

\* ------------------------------------------------------------- C4
\* C4: while a turn runs, once a non-empty response text has been received the
\* transcript holds exactly one message more than when the turn started, and that
\* message is the assistant message with exactly the response text received last.
C4_OverwriteInPlace ==
    (pc \in {"stream", "done"} /\ last_state.response /= EmptyStr) =>
        /\ Len(history) = start_len + 1
        /\ Last(history) = ChatMessage("assistant", last_state.response)

C4_Witness ==
    /\ pc = "stream"
    /\ ~errored
    /\ last_state.response = <<"X", "X">>
    /\ Len(history) = start_len + 1
    /\ Last(history).content = <<"X", "X">>

\* ------------------------------------------------------------- C5
NoDuplicateFilenames(store) ==
    \A i, j \in 1..Len(store) : store[i].filename = store[j].filename => i = j

DistinctNewReadable(store, files) ==
    /\ \A i \in 1..Len(files) : Readable(files[i]) /\ ~\E k \in 1..Len(store) : store[k].filename = Basename(files[i])
    /\ \A i, j \in 1..Len(files) : Basename(files[i]) = Basename(files[j]) => i = j

AllPresent(store, files) ==
    \A i \in 1..Len(files) : \E k \in 1..Len(store) : store[k].filename = Basename(files[i])

\* C5: the store never holds two entries with the same filename; an upload of files
\* whose filenames are all in the store leaves it unchanged; an upload of readable
\* files with pairwise distinct filenames, none in the store, keeps the old entries and
\* appends one entry per file.
C5_DedupByFilename ==
    /\ NoDuplicateFilenames(document_store)
    /\ \A files \in Batches, now \in Clock :
          LET after == UploadAll(document_store, files, now) IN
          /\ AllPresent(document_store, files) => after = document_store
          /\ DistinctNewReadable(document_store, files) =>
                /\ Len(after) = Len(document_store) + Len(files)
                /\ SubSeq(after, 1, Len(document_store)) = document_store
                /\ \A i \in 1..Len(files) :
                      after[Len(document_store) + i].filename = Basename(files[i])

C5_Witness ==
    /\ Len(document_store) = 2
    /\ document_store[1].filename = "cv.txt"
    /\ document_store[2].filename = "exact.txt"
    /\ document_store[1].doc_id[2] = document_store[2].doc_id[2]

\* ------------------------------------------------------------- C6
C6_Expected(doc) ==
    <<Lit("\n---\n**Document: "), Lit(doc.filename), Lit("**\n")>>
    \o (IF doc.content.len > TruncLimit
        THEN <<[kind |-> "slice", text |-> doc.content.text, len |-> TruncLimit], TruncationMarker>>
        ELSE <<doc.content>>)
    \o <<Lit("\n---\n")>>

C6_BlockRendered ==
    (pc = "docs" /\ pc' = "docs" /\ di_pos' = di_pos + 1) =>
        document_context' = document_context \o C6_Expected(document_store[di_pos])

\* C6: the block chat_fn renders for a document holds the first 5000 characters of the
\* content followed by the truncation marker when the content is longer than 5000
\* characters, and the whole content and no marker otherwise.
C6_TruncateAtLimit == [][C6_BlockRendered]_vars

C6_Witness ==
    /\ pc = "call"
    /\ \E i \in 1..Len(document_context) :
          /\ document_context[i] = [kind |-> "slice", text |-> "u/cv.txt", len |-> TruncLimit]
          /\ document_context[i + 1] = TruncationMarker
    /\ \E i \in 1..Len(document_context) :
          /\ document_context[i] = [kind |-> "slice", text |-> "u/exact.txt", len |-> TruncLimit]
          /\ document_context[i + 1] /= TruncationMarker

\* ------------------------------------------------------------- C7
\* C7: every clear_documents step leaves the store empty and the display empty.
C7_ClearEmpties ==
    [][clear_documents => (document_store' = <<>> /\ documents_display' = <<>>)]_vars

C7_Witness ==
    /\ Len(document_store) = 2
    /\ Len(documents_display) = 2
    /\ ENABLED (clear_documents /\ document_store' = <<>> /\ documents_display' = <<>>)

\* ------------------------------------------------------------- C8
C8_UserOrAssistant(m) == m.role \in {"user", "assistant"} /\ m.content /= EmptyStr

C8_UntitledUserOrAssistant(m) ==
    C8_UserOrAssistant(m) /\ (m.role = "assistant" => m.title = NoTitle)

C8_Bare(h) == [i \in 1..Len(h) |-> [role |-> h[i].role, content |-> h[i].content]]

C8_SystemFirstAndOnly ==
    /\ Len(messages) >= 1
    /\ messages[1].role = "system"
    /\ \A i \in 2..Len(messages) : messages[i].role /= "system"

\* C8, as stated: the request holds one system message, first, followed by the user
\* and assistant messages of the history that have content, in order.
C8_Original ==
    pc = "call" =>
        /\ C8_SystemFirstAndOnly
        /\ Tail(messages) = C8_Bare(SelectSeq(history_for_llm, C8_UserOrAssistant))

\* C8, amended: the request holds one system message, first, followed by the user
\* messages and the assistant messages without a metadata title that have content,
\* in order.
C8_Amended ==
    pc = "call" =>
        /\ C8_SystemFirstAndOnly
        /\ Tail(messages) = C8_Bare(SelectSeq(history_for_llm, C8_UntitledUserOrAssistant))

C8_Witness ==
    /\ pc = "call"
    /\ \E i \in 1..Len(history_for_llm) : history_for_llm[i].role = "system"
    /\ \E i \in 1..Len(history_for_llm) :
          history_for_llm[i].role = "assistant" /\ history_for_llm[i].content = EmptyStr
    /\ \E i \in 1..Len(history_for_llm) : history_for_llm[i].content = ErrorMessage
    /\ Len(messages) = 4

\* ------------------------------------------------------------- C9
\* C9: at most one turn is between its submission and the end of its bot response,
\* and while one is, the input is disabled.
C9_OneTurnAtATime ==
    /\ inflight <= 1
    /\ (pc /= "idle") = (inflight = 1)
    /\ inflight = 1 => ~interactive

C9_Witness ==
    /\ pc = "stream"
    /\ seen /= <<>>
    /\ ~interactive
    /\ turns_left > 0

\* ------------------------------------------------------------- C10
\* C10: no upload or clear that interleaves with a turn makes the turn fail.
C10_NoFlowFails == pc /= "crashed"

\* ------------------------------------------------------------- C11
C11_ReadableOnly(files) == SelectSeq(files, Readable)

C11_FromReadableFiles(store) == \A k \in 1..Len(store) : Readable(store[k].content.text)

\* C11: no entry of the store comes from a file that cannot be read, and an upload
\* of any batch keeps the entries of the store as they are and leaves the store as
\* the upload of the batch without its unreadable files would.
C11_SkipUnreadable ==
    /\ C11_FromReadableFiles(document_store)
    /\ \A files \in Batches, now \in Clock :
          LET after == UploadAll(document_store, files, now) IN
          /\ Len(after) >= Len(document_store)
          /\ SubSeq(after, 1, Len(document_store)) = document_store
          /\ after = UploadAll(document_store, C11_ReadableOnly(files), now)
          /\ format_document_display(after)
                = format_document_display(UploadAll(document_store, C11_ReadableOnly(files), now))

C11_Batch == <<"u/bad.txt", "u/exact.txt">>

C11_Witness ==
    /\ Len(document_store) = 1
    /\ document_store[1].filename = "cv.txt"
    /\ C11_Batch \in Batches
    /\ ENABLED (/\ UploadBatch(C11_Batch, 1)
                /\ Len(document_store') = 2
                /\ document_store'[1] = document_store[1]
                /\ document_store'[2].filename = "exact.txt"
                /\ document_store'[2].doc_id = <<2, 1>>
                /\ Len(documents_display') = 2)

\* ------------------------------------------------------------- C12
\* some chunk carries a response fragment, and that chunk or an earlier one thinking
C12_ResponseAfterThinking(chunks) ==
    \E i \in 1..Len(chunks) :
        /\ chunks[i].content /= EmptyStr
        /\ \E j \in 1..i : chunks[j].thinking /= EmptyStr

C12_Flag ==
    /\ pc \in {"idle", "bot", "docs", "call"} => ~thinking_complete
    /\ (pc \in {"stream", "done"} /\ ~errored) =>
          /\ thinking_complete = C12_ResponseAfterThinking(seen)
          /\ last_state /= NoState => last_state.thinking_complete = thinking_complete

C12_Monotone ==
    (pc = "stream" /\ pc' \in {"stream", "done"} /\ last_state.thinking_complete) =>
        last_state'.thinking_complete

\* C12: in a stream that has not raised, thinking_complete is false before the first
\* chunk and afterwards is true exactly when some chunk delivered so far carried a
\* response fragment and that chunk or an earlier one carried thinking; every emitted
\* state carries that value, and a state emitted after one with thinking_complete =
\* true has it true as well.
C12_ThinkingComplete == [](C12_Flag) /\ [][C12_Monotone]_vars

C12_Witness ==
    /\ pc = "stream"
    /\ ~errored
    /\ seen = <<TextChunk(EmptyStr, <<"X">>), TextChunk(<<"A">>, <<"X">>), TextChunk(<<"A">>, EmptyStr)>>
    /\ thinking_complete
    /\ last_state.thinking_complete
    /\ last_state.thinking = <<"A", "A">>

\* ------------------------------------------------------------- C13
\* C13: in a turn in which thinking text was folded into the thinking transcript,
\* once the state folded last has thinking_complete = true the last entry of the
\* thinking transcript is that thinking text under the completion marker.
C13_CompletionMarker ==
    (/\ pc \in {"stream", "done"}
     /\ last_state.thinking_complete
     /\ current_thinking_content /= EmptyStr) =>
        Last(thinking_messages).content = FormatThinking(TRUE, current_thinking_content)

\* ------------------------------------------------------------- C14
C14_ThinkingEntry(flag, text) == [role |-> "assistant", content |-> FormatThinking(flag, text)]

\* C14: after every yield of bot_response the thinking transcript, which is what the
\* thoughts panel shows, has exactly one entry; after a yield of the loop that entry is
\* the waiting status while no thinking text has arrived, and afterwards the one
\* thinking entry with all the thinking text received so far.
C14_SingleEntry ==
    pc \in {"stream", "done"} =>
        /\ (last_state /= NoState \/ pc = "done") =>
              /\ Len(thinking_messages) = 1
              /\ thoughts = thinking_messages
        /\ last_state /= NoState =>
              /\ current_thinking_content = thinking_buffer
              /\ thinking_buffer = EmptyStr =>
                    thinking_messages = _create_status_message("Waiting for response...")
              /\ thinking_buffer /= EmptyStr =>
                    \E flag \in BOOLEAN :
                        thinking_messages = <<C14_ThinkingEntry(flag, thinking_buffer)>>

C14_Witness ==
    /\ pc = "stream"
    /\ seen = <<TextChunk(EmptyStr, <<"X">>), TextChunk(<<"A">>, EmptyStr), TextChunk(<<"A", "B">>, <<"X">>)>>
    /\ thinking_messages = <<C14_ThinkingEntry(TRUE, <<"A", "A", "B">>)>>
    /\ thoughts = thinking_messages

\* ------------------------------------------------------------- C15
C15_InTurn == pc \in {"docs", "call", "stream", "done"}

C15_ResponseEmitted == response_buffer /= EmptyStr \/ errored

C15_Tail ==
    C15_InTurn =>
        /\ start_len <= Len(history)
        /\ _extract_message_content(SubSeq(history, 1, start_len)) = history_for_llm
        /\ C15_ResponseEmitted = (last_state.response /= EmptyStr)
        /\ C15_ResponseEmitted =>
              /\ Len(history) = start_len + 1
              /\ Last(history) = ChatMessage("assistant", last_state.response)
        /\ ~C15_ResponseEmitted => Len(history) = start_len

C15_PrefixKept ==
    (C15_InTurn /\ pc' \in {"docs", "call", "stream", "done"}) =>
        /\ start_len' = start_len
        /\ SubSeq(history', 1, start_len) = SubSeq(history, 1, start_len)

\* C15: from the start of bot_response to its last yield no step changes a message
\* that was in the transcript when bot_response started, and the transcript is those
\* messages followed by one assistant message with the response text emitted last if
\* a state with non-empty response text (an error string included) was emitted, and
\* by nothing otherwise.
C15_OnlyTheTail == [](C15_Tail) /\ [][C15_PrefixKept]_vars

C15_Witness ==
    /\ pc = "done"
    /\ start_len = Len(RichHistory) + 1
    /\ SubSeq(history, 1, start_len) = Append(RichHistory, ChatMessage("user", <<"q">>))
    /\ Len(history) = start_len + 1
    /\ Last(history) = ChatMessage("assistant", <<"X", "X">>)

====
